---------------------------- MODULE Spec2Model ----------------------------
(***************************************************************************)
(* User synchronisation and cache invalidation core of the course          *)
(* platform: the users table, the tag-based read cache in front of it, the *)
(* identity provider's public metadata, and the request handlers that move *)
(* data between the three (interactive sync, lifecycle webhook, session    *)
(* resolver), together with the course repository that follows the same    *)
(* write-then-invalidate convention.                                       *)
(*                                                                         *)
(* Every request handler is a process; one action is the code that runs    *)
(* between two awaits.  A database statement is atomic (PostgreSQL); the   *)
(* code that follows an await up to the next one runs without interleaving *)
(* (one JavaScript thread).                                                *)
(***************************************************************************)
EXTENDS Integers, FiniteSets, Sequences, TLC

(***************************************************************************)
(* Bounds of the model.                                                    *)
(***************************************************************************)
MaxRows == 2

\* the request handlers that may be in progress at once
Procs == {1, 2}

(***************************************************************************)
(* Values.  NULL stands for null / undefined of a string-valued field.     *)
(***************************************************************************)
NULL == "NULL"
DeletedAtDate == "Date"

ExternalIds == {"user_a", "user_b"}
Names == {"Ada", "Bob"}
Email == "ada@example.com"
ImageUrl == "img"

userRoles == {"admin", "user"}

DeletedName == "Deleted User"
DeletedEmail == "redacted@deleted.com"
DeletedClerkUserId == "deleted"

SyncUsersPath == "/api/clerk/syncUsers"

(***************************************************************************)
(* Tag namespace (src/lib/dataCache.ts and src/features/users/db/cache.ts) *)
(***************************************************************************)
getGlobalTag(tag) == "global:" \o tag

\* variant: the entity kind before the identifier
IdTagKindFirst(tag, id) == "id:" \o tag \o "-" \o id

getIdTag(tag, id) == "id:" \o id \o "-" \o tag

getUserTag(tag, userId) == "user:" \o userId \o "-" \o tag

getUserGlobalTag == getGlobalTag("users")

getUserIdTag(id) == getIdTag("users", id)

\* The primary key: uuid().defaultRandom(); the n-th generated key.
Uuid(n) == "u" \o ToString(n)


(***************************************************************************)
(* State.                                                                  *)
(*   UserTable       rows of the users table (createdAt and updatedAt, the *)
(*                   write-time stamps no handler reads, are left out)     *)
(*   nextId          number of the next primary key defaultRandom() draws  *)
(*   memoryCache     entries of the "use cache" store of getUser           *)
(*   tagsManifest    tags revalidateTag has been called with               *)
(*   publicMetadata  the identity provider's {dbId, role} per identity     *)
(*   pc, loc         position and locals of each request handler           *)
(*   response        the locals of the handler that has just answered, as  *)
(*                   it answered (IdleLoc after any other step)            *)
(*   invalidation    the revalidateTag calls of the step just taken: who   *)
(*                   called, in which handler, the tags, and the row its   *)
(*                   statement had returned                                *)
(*                   (NoInvalidation after any other step)                 *)
(*   redacted        history: external ids deleteUser has redacted         *)
(*   lastWrite       history: name set by the last committed write that    *)
(*                   addressed an external id (NULL when none, or when the *)
(*                   last one redacted the row)                            *)
(***************************************************************************)
VARIABLES UserTable, nextId, CourseTable, nextCourseId, SectionTable,
          nextSectionId, memoryCache,
          tagsManifest, publicMetadata, pc, loc, response, invalidation,
          redacted, lastWrite

vars == <<UserTable, nextId, CourseTable, nextCourseId, SectionTable,
          nextSectionId, memoryCache,
          tagsManifest, publicMetadata, pc, loc, response, invalidation,
          redacted, lastWrite>>

sectionVars == <<SectionTable, nextSectionId>>

courseVars == <<CourseTable, nextCourseId, SectionTable, nextSectionId>>

userVars == <<UserTable, nextId, publicMetadata, redacted, lastWrite>>

\* A URL is kept as the pieces its text is made of, so that includes() can
\* look into it: the text is the concatenation of origin, path and query.
Url(origin, path, query) ==
    [absent |-> FALSE, origin |-> origin, path |-> path, query |-> query]

\* request.headers.get("referer") of a request without that header
NoReferer == [absent |-> TRUE, origin |-> <<>>, path |-> <<>>, query |-> <<>>]

NoData == [none |-> TRUE]

IdleLoc == [op |-> "idle", evt |-> NULL, x |-> NULL, email |-> NULL,
            data |-> NoData,
            row |-> {}, err |-> NULL, ret |-> NULL,
            id |-> NULL, role |-> NULL, allData |-> FALSE,
            val |-> {}, hit |-> FALSE, fresh |-> TRUE,
            missed |-> {}, old |-> FALSE, gotOld |-> FALSE, before |-> {},
            referer |-> NoReferer]

NoMetadata == [dbId |-> NULL, role |-> NULL]

NoInvalidation == [by |-> 0, op |-> NULL, tags |-> {}, row |-> {}]

(***************************************************************************)
(* The users table and its statements.                                     *)
(***************************************************************************)
NewUserRow(id, data) ==
    [id |-> id, clerkUserId |-> data.clerkUserId, name |-> data.name,
     email |-> data.email, role |-> data.role, imageUrl |-> data.imageUrl,
     deletedAt |-> NULL]

\* .set(values): the columns named in values are overwritten, the rest kept.
ApplySet(r, values) ==
    [f \in DOMAIN r |-> IF f \in DOMAIN values THEN values[f] ELSE r[f]]

\* clerkUserId: text().notNull().unique()
UniqueClerkUserId(table) ==
    \A r1, r2 \in table : r1.clerkUserId = r2.clerkUserId => r1 = r2

\* an INSERT into a table without the unique index
InsertWithoutIndex(table, data, id) ==
    [ok |-> TRUE, inserted |-> TRUE,
     table |-> table \cup {NewUserRow(id, data)},
     returning |-> {NewUserRow(id, data)}]

\* an upsert that replaces the row in conflict by a new row
DeleteThenInsert(table, data, id) ==
    LET conflict == {r \in table : r.clerkUserId = data.clerkUserId}
    IN  [ok |-> TRUE, inserted |-> TRUE,
         table |-> (table \ conflict) \cup {NewUserRow(id, data)},
         returning |-> {NewUserRow(id, data)}]

\* INSERT ... VALUES (data) ON CONFLICT (clerkUserId) DO NOTHING RETURNING *
InsertOnConflictDoNothing(table, data, id) ==
    LET conflict == {r \in table : r.clerkUserId = data.clerkUserId}
    IN  IF conflict = {}
        THEN [ok |-> TRUE, inserted |-> TRUE,
              table |-> table \cup {NewUserRow(id, data)},
              returning |-> {NewUserRow(id, data)}]
        ELSE [ok |-> TRUE, inserted |-> FALSE, table |-> table,
              returning |-> {}]

\* INSERT ... VALUES (data) ON CONFLICT (clerkUserId) DO UPDATE SET data
\* RETURNING *
InsertOnConflictDoUpdate(table, data, id) ==
    LET conflict == {r \in table : r.clerkUserId = data.clerkUserId}
    IN  IF conflict = {}
        THEN [ok |-> TRUE, inserted |-> TRUE,
              table |-> table \cup {NewUserRow(id, data)},
              returning |-> {NewUserRow(id, data)}]
        ELSE [ok |-> TRUE, inserted |-> FALSE,
              table |-> (table \ conflict)
                           \cup {ApplySet(r, data) : r \in conflict},
              returning |-> {ApplySet(r, data) : r \in conflict}]

\* UPDATE users SET values WHERE clerkUserId = x RETURNING *
\* The statement fails as a whole when the result breaks the unique index.
UpdateWhereClerkUserId(table, x, values) ==
    LET hit == {r \in table : r.clerkUserId = x}
        new == (table \ hit) \cup {ApplySet(r, values) : r \in hit}
    IN  IF UniqueClerkUserId(new) /\ Cardinality(new) = Cardinality(table)
        THEN [ok |-> TRUE, inserted |-> FALSE, table |-> new,
              returning |-> {ApplySet(r, values) : r \in hit}]
        ELSE [ok |-> FALSE, inserted |-> FALSE, table |-> table,
              returning |-> {}]

\* the values deleteUser sets
DeleteSet ==
    [deletedAt |-> DeletedAtDate, email |-> DeletedEmail, name |-> DeletedName,
     clerkUserId |-> DeletedClerkUserId, imageUrl |-> NULL]

\* const [row] = await db...returning()
First(rows) == IF rows = {} THEN {} ELSE {CHOOSE r \in rows : TRUE}

\* db.query.UserTable.findFirst({ where: eq(UserTable.id, id) })
FindFirstById(table, id) == First({r \in table : r.id = id})


(***************************************************************************)
(* The read cache.  Next.js stamps a "use cache" entry with the time its   *)
(* computation started and serves it only while none of its tags has been  *)
(* revalidated at or after that time.  The model keeps the outcome of that *)
(* comparison instead of the two times: revalidateTag(t) marks stale every *)
(* stored entry tagged t and every computation tagged t that is under way  *)
(* (its entry will carry a start time before the revalidation).            *)
(*                                                                         *)
(* History field of the sync route: id = the dbId the identity's metadata   *)
(* held when the request began.                                            *)
(*                                                                         *)
(* History field of insertUser: before = the rows its statement found in   *)
(* conflict.                                                               *)
(*                                                                         *)
(* History fields of a held value (an entry, or the row a computation has  *)
(* read): missed = the mutations in progress that committed after the row  *)
(* was read; old = one of those mutations has since returned.              *)
(***************************************************************************)
InFlightPcs == {"getuser_db", "getuser_set"}

\* the tags the computation of process q has attached with cacheTag
TagsOf(q) == IF pc[q] \in InFlightPcs THEN {getUserIdTag(loc[q].id)} ELSE {}

\* variant: a lookup that ignores revalidation
CacheGetRevalidated(cache, key) == {e \in cache : e.key = key}

CacheGet(cache, key) == {e \in cache : e.key = key /\ ~e.stale}

CacheSet(cache, entry) == {e \in cache : e.key # entry.key} \cup {entry}

\* variant: a revalidation that empties the whole cache
RevalidateEverything(cache, tags) ==
    {[e EXCEPT !.stale = e.stale \/ tags # {}] : e \in cache}

\* revalidateTag, for each tag of tags, on the stored entries
RevalidateEntries(cache, tags) ==
    {[e EXCEPT !.stale = e.stale \/ (e.tags \cap tags # {})] : e \in cache}

\* a cache that forgets the computations under way: revalidateTag reaches
\* the stored entries only
RevalidateStoredOnly(l, tags) == l

\* revalidateTag, for each tag of tags, on the computations under way
RevalidateInFlight(l, tags) ==
    [q \in Procs |->
        IF TagsOf(q) \cap tags # {} THEN [l[q] EXCEPT !.fresh = FALSE]
        ELSE l[q]]

\* variant: the global tag alone
GlobalTagOnly(id) == {getUserGlobalTag}

\* the tags revalidateUserCache(id) revalidates
UserCacheTags(id) == {getUserGlobalTag, getUserIdTag(id)}

\* history: process p has committed a write of the rows with these ids
CommitEntries(cache, p, ids) ==
    {IF e.key \in ids THEN [e EXCEPT !.missed = e.missed \cup {p}] ELSE e
        : e \in cache}

CommitInFlight(l, p, ids) ==
    [q \in Procs |->
        IF pc[q] = "getuser_set" /\ l[q].id \in ids
        THEN [l[q] EXCEPT !.missed = l[q].missed \cup {p}]
        ELSE l[q]]

\* history: the mutation of process p has returned to its caller
ReturnEntries(cache, p) ==
    {IF p \in e.missed
     THEN [e EXCEPT !.missed = e.missed \ {p}, !.old = TRUE] ELSE e
        : e \in cache}

ReturnInFlight(l, p) ==
    [q \in Procs |->
        IF p \in l[q].missed
        THEN [l[q] EXCEPT !.missed = l[q].missed \ {p}, !.old = TRUE]
        ELSE l[q]]

IdsOf(rows) == {r.id : r \in rows}

(***************************************************************************)
(* Initial state: empty table, empty cache, no identity linked.            *)
(***************************************************************************)
Init ==
    /\ UserTable = {}
    /\ nextId = 1
    /\ CourseTable = {}
    /\ nextCourseId = 1
    /\ SectionTable = {}
    /\ nextSectionId = 1
    /\ memoryCache = {}
    /\ tagsManifest = {}
    /\ publicMetadata = [x \in ExternalIds |-> NoMetadata]
    /\ pc = [p \in Procs |-> "idle"]
    /\ loc = [p \in Procs |-> IdleLoc]
    /\ response = IdleLoc
    /\ invalidation = NoInvalidation
    /\ redacted = {}
    /\ lastWrite = [x \in ExternalIds |-> NULL]


\* process p calls revalidateTag for each tag of tags and returns
RevalidateTags(p, tags) ==
    /\ tagsManifest' = tagsManifest \cup tags
    /\ memoryCache' = RevalidateEntries(ReturnEntries(memoryCache, p), tags)
    /\ invalidation' = [by |-> p, op |-> loc[p].op, tags |-> tags,
                        row |-> loc[p].row]

NoRevalidate ==
    /\ UNCHANGED <<memoryCache, tagsManifest>>
    /\ invalidation' = NoInvalidation

(***************************************************************************)
(* Errors and responses.                                                   *)
(***************************************************************************)
FailedToCreate == "Failed to create user"
\* an updateUser that throws the error of insertUser
SameErrorAsCreate == FailedToCreate
FailedToUpdate == "Failed to update user"
FailedToDelete == "Failed to delete user"
DbConnectionError == "password authentication failed"
DbUniqueError == "duplicate key value violates unique constraint"
ClerkApiError == "Clerk API error"

EmailMissingResponse == "500:User email missing"
DbFailedResponse == "500:Database connection failed"
WebhookOk == "200"
WebhookBadSignature == "400:Error occurred"
Uncaught == "500"
SignInRedirect == "redirect:/sign-in"
NeedsSync == "redirect:" \o SyncUsersPath
Session == "session"

\* the catch block of the sync route; the webhook route catches nothing
ResponseToError(op, msg) ==
    IF op = "sync"
    THEN IF msg = DbConnectionError THEN DbFailedResponse
         ELSE "500:Sync failed: " \o msg
    ELSE Uncaught

\* the handler with locals l ends with the exception msg
Thrown(l, msg) == [l EXCEPT !.err = msg, !.ret = ResponseToError(l.op, msg)]

\* process p goes on at pc next; L are the locals of all processes
Continue(p, L, next) ==
    /\ pc' = [pc EXCEPT ![p] = next]
    /\ loc' = L
    /\ response' = IdleLoc

\* process p answers with its locals r and is free again
Respond(p, L, r) ==
    /\ pc' = [pc EXCEPT ![p] = "idle"]
    /\ loc' = [L EXCEPT ![p] = IdleLoc]
    /\ response' = [r EXCEPT !.data = NoData, !.fresh = TRUE, !.missed = {},
                             !.old = FALSE, !.before = {}]

(***************************************************************************)
(* Inputs of the interactive sync: the identity provider's profile.        *)
(***************************************************************************)
Profiles ==
    { [fullName |-> "Ada", firstName |-> "Ada", lastName |-> NULL,
       username |-> NULL, email |-> Email],
      [fullName |-> NULL, firstName |-> "", lastName |-> NULL,
       username |-> "Bob", email |-> Email],
      [fullName |-> "Ada", firstName |-> NULL, lastName |-> NULL,
       username |-> NULL, email |-> NULL],
      [fullName |-> "Bob", firstName |-> NULL, lastName |-> NULL,
       username |-> NULL, email |-> ""] }

Host == <<"http://host">>

Referers ==
    { NoReferer,
      Url(Host, <<"/courses">>, <<>>),
      Url(Host, <<SyncUsersPath>>, <<>>),
      Url(Host, <<"/courses">>, <<"?from=", SyncUsersPath>>) }

\* JavaScript truthiness of a string or null
Truthy(v) == v # NULL /\ v # ""

\* a check for null only: if (email == null)
NotNull(email) == email # NULL

\* !email is false
HasEmail(email) == Truthy(email)

\* user.fullName ?? user.firstName ?? user.lastName ?? user.username ?? "User"
DeriveNameNullish(u) ==
    IF u.fullName # NULL THEN u.fullName
    ELSE IF u.firstName # NULL THEN u.firstName
    ELSE IF u.lastName # NULL THEN u.lastName
    ELSE IF u.username # NULL THEN u.username
    ELSE "User"

\* user.fullName || user.firstName || user.lastName || user.username || "User"
DeriveName(u) ==
    IF Truthy(u.fullName) THEN u.fullName
    ELSE IF Truthy(u.firstName) THEN u.firstName
    ELSE IF Truthy(u.lastName) THEN u.lastName
    ELSE IF Truthy(u.username) THEN u.username
    ELSE "User"

RECURSIVE Concat(_)
Concat(pieces) ==
    IF pieces = <<>> THEN "" ELSE Head(pieces) \o Concat(Tail(pieces))

Pieces(url) == url.origin \o url.path \o url.query

\* the text of a URL
Href(url) == Concat(Pieces(url))

\* request.headers.get("referer"): the text, or null
HeaderValue(referer) == IF referer.absent THEN NULL ELSE Href(referer)

\* referer.includes("/api/clerk/syncUsers")
IncludesSyncPath(referer) ==
    \E i \in DOMAIN Pieces(referer) : Pieces(referer)[i] = SyncUsersPath

\* the literal "/"
RootPath == Url(<<>>, <<"/">>, <<>>)

\* referer && !referer.includes("/api/clerk/syncUsers") ? referer : "/"
RedirectUrl(referer) ==
    IF Truthy(HeaderValue(referer)) /\ ~IncludesSyncPath(referer)
    THEN referer ELSE RootPath

UrlMalformed == "URL is malformed"

\* NextResponse.redirect(url) sets Location to String(new URL(String(url)))
\* and throws when url is not absolute
IsAbsolute(url) == url.origin # <<>>

\* a default role of "admin"
RoleOrAdmin(meta) == IF meta.role # NULL THEN meta.role ELSE "admin"

\* (user.publicMetadata?.role as "user" | "admin") ?? "user"
RoleOrUser(meta) == IF meta.role # NULL THEN meta.role ELSE "user"

(***************************************************************************)
(* GET /api/clerk/syncUsers for the signed-in identity x (NULL: nobody is  *)
(* signed in), up to the call of insertUser.                               *)
(***************************************************************************)
SyncStart(p, x) ==
    /\ pc[p] = "idle"
    /\ \E u \in Profiles :
          LET l == [IdleLoc EXCEPT !.op = "sync", !.x = x,
                                   !.email = IF x = NULL THEN NULL ELSE u.email,
                                   !.id = IF x = NULL THEN NULL
                                          ELSE publicMetadata[x].dbId]
          IN
          IF x = NULL
          THEN Respond(p, loc, [l EXCEPT !.ret = SignInRedirect])
          ELSE IF ~HasEmail(l.email)
          THEN Respond(p, loc, [l EXCEPT !.ret = EmailMissingResponse])
          ELSE Continue(p, [loc EXCEPT ![p] = [l EXCEPT !.data =
                            [clerkUserId |-> x, name |-> DeriveName(u),
                             email |-> u.email, imageUrl |-> ImageUrl,
                             role |-> RoleOrUser(publicMetadata[x])]]],
                        "insert_write")
    /\ UNCHANGED <<UserTable, nextId, memoryCache, tagsManifest,
                   publicMetadata, redacted, lastWrite>>
    /\ invalidation' = NoInvalidation
    /\ UNCHANGED courseVars

(***************************************************************************)
(* insertUser: the upsert statement, then the check and the invalidation.  *)
(***************************************************************************)
InsertUserWrite(p) ==
    /\ pc[p] = "insert_write"
    /\ \E failed \in BOOLEAN :
          LET st == InsertOnConflictDoUpdate(UserTable, loc[p].data,
                                             Uuid(nextId))
              ids == IdsOf(st.returning)
          IN  IF failed
              THEN /\ Respond(p, loc, Thrown(loc[p], DbConnectionError))
                   /\ UNCHANGED <<UserTable, nextId, memoryCache, lastWrite>>
              ELSE /\ st.inserted => nextId <= MaxRows
                   /\ UserTable' = st.table
                   /\ nextId' = IF st.inserted THEN nextId + 1 ELSE nextId
                   /\ memoryCache' = CommitEntries(memoryCache, p, ids)
                   /\ lastWrite' = [lastWrite EXCEPT
                                ![loc[p].data.clerkUserId] = loc[p].data.name]
                   /\ Continue(p, [CommitInFlight(loc, p, ids) EXCEPT
                                     ![p].row = First(st.returning),
                                     ![p].before =
                                        {r \in UserTable : r.clerkUserId =
                                            loc[p].data.clerkUserId}],
                               "insert_reval")
    /\ UNCHANGED <<tagsManifest, publicMetadata, redacted>>
    /\ invalidation' = NoInvalidation
    /\ UNCHANGED courseVars

\* the pc the caller of insertUser continues at
AfterInsert(op) == IF op = "sync" THEN "sync_meta" ELSE "wh_meta"

InsertUserReturn(p) ==
    /\ pc[p] = "insert_reval"
    /\ IF loc[p].row = {}
       THEN /\ Respond(p, loc, Thrown(loc[p], FailedToCreate))
            /\ NoRevalidate
       ELSE LET tags == UNION {UserCacheTags(r.id) : r \in loc[p].row} IN
            /\ RevalidateTags(p, tags)
            /\ Continue(p, [RevalidateInFlight(ReturnInFlight(loc, p), tags)
                              EXCEPT ![p].before = {}],
                        AfterInsert(loc[p].op))
    /\ UNCHANGED <<UserTable, nextId, publicMetadata, redacted, lastWrite>>
    /\ UNCHANGED courseVars

(***************************************************************************)
(* syncClerkUserMetadata(dbUser), called by the sync route and by the      *)
(* webhook route once insertUser has returned a row.  The call to the      *)
(* identity provider may fail.                                             *)
(***************************************************************************)
\* a write-back that links the identity to its own external id
LinkExternalId(meta, user) ==
    IF user.clerkUserId \in DOMAIN meta
    THEN [meta EXCEPT ![user.clerkUserId] =
              [dbId |-> user.clerkUserId, role |-> user.role]]
    ELSE meta

\* client.users.updateUserMetadata(user.clerkUserId, {publicMetadata: ...})
UpdateUserMetadata(meta, user) ==
    IF user.clerkUserId \in DOMAIN meta
    THEN [meta EXCEPT ![user.clerkUserId] =
              [dbId |-> user.id, role |-> user.role]]
    ELSE meta

SyncMetadata(p) ==
    /\ pc[p] = "sync_meta"
    /\ \E ok \in BOOLEAN, referer \in Referers :
          IF ok
          THEN /\ publicMetadata' =
                     UpdateUserMetadata(publicMetadata,
                                        CHOOSE r \in loc[p].row : TRUE)
               /\ LET l == [loc[p] EXCEPT !.referer = referer]
                      redirectUrl == RedirectUrl(referer)
                  IN  Respond(p, loc,
                              IF IsAbsolute(redirectUrl)
                              THEN [l EXCEPT !.ret = "redirect:"
                                                 \o Href(redirectUrl)]
                              ELSE Thrown(l, UrlMalformed))
          ELSE /\ Respond(p, loc, Thrown(loc[p], ClerkApiError))
               /\ UNCHANGED publicMetadata
    /\ UNCHANGED <<UserTable, nextId, memoryCache, tagsManifest, redacted,
                   lastWrite>>
    /\ invalidation' = NoInvalidation
    /\ UNCHANGED courseVars

WebhookMetadata(p) ==
    /\ pc[p] = "wh_meta"
    /\ \E ok \in BOOLEAN :
          IF ok
          THEN /\ publicMetadata' =
                     UpdateUserMetadata(publicMetadata,
                                        CHOOSE r \in loc[p].row : TRUE)
               /\ Respond(p, loc, [loc[p] EXCEPT !.ret = WebhookOk])
          ELSE /\ Respond(p, loc, Thrown(loc[p], ClerkApiError))
               /\ UNCHANGED publicMetadata
    /\ UNCHANGED <<UserTable, nextId, memoryCache, tagsManifest, redacted,
                   lastWrite>>
    /\ invalidation' = NoInvalidation
    /\ UNCHANGED courseVars

(***************************************************************************)
(* POST /api/webhooks/clerk with an event about identity x: signature      *)
(* check and dispatch.  user.created goes to insertUser; user.updated goes *)
(* to insertUser in one description of the route and to updateUser in the  *)
(* other, so both are handlers here; user.deleted goes to deleteUser.      *)
(***************************************************************************)
EventTypes == {"user.created", "user.updated", "user.deleted"}

\* the handlers an event type is dispatched to
HandlersOf(type) ==
    IF type = "user.created" THEN {"insert_write"}
    ELSE IF type = "user.updated" THEN {"insert_write", "update_write"}
    ELSE {"delete_write"}

\* the arguments the route hands to the repository function
WebhookData(handler, x, name) ==
    IF handler = "insert_write"
    THEN [clerkUserId |-> x, email |-> Email, name |-> name,
          imageUrl |-> ImageUrl, role |-> "user"]
    ELSE IF handler = "update_write"
    THEN [email |-> Email, name |-> name, imageUrl |-> ImageUrl]
    ELSE NoData

\* variant: the event is dispatched before the signature is looked at
DispatchBeforeVerify(p, x) ==
    /\ pc[p] = "idle"
    /\ \E type \in EventTypes, name \in Names : \E handler \in HandlersOf(type) :
          LET l == [IdleLoc EXCEPT !.op = "webhook", !.evt = type, !.x = x]
          IN  /\ pc' = [pc EXCEPT ![p] = handler]
              /\ loc' = [loc EXCEPT ![p] =
                            [l EXCEPT !.data = WebhookData(handler, x, name)]]
              /\ response' = [l EXCEPT !.ret = WebhookBadSignature]
    /\ UNCHANGED <<UserTable, nextId, memoryCache, tagsManifest,
                   publicMetadata, redacted, lastWrite>>
    /\ invalidation' = NoInvalidation
    /\ UNCHANGED courseVars

WebhookStart(p, x) ==
    /\ pc[p] = "idle"
    /\ \E verified \in BOOLEAN, type \in EventTypes :
          LET l == [IdleLoc EXCEPT !.op = "webhook", !.evt = type, !.x = x]
          IN  IF ~verified
              THEN Respond(p, loc, [l EXCEPT !.ret = WebhookBadSignature])
              ELSE \E name \in Names, handler \in HandlersOf(type) :
                      Continue(p, [loc EXCEPT ![p] =
                            [l EXCEPT !.data = WebhookData(handler, x, name)]],
                               handler)
    /\ UNCHANGED <<UserTable, nextId, memoryCache, tagsManifest,
                   publicMetadata, redacted, lastWrite>>
    /\ invalidation' = NoInvalidation
    /\ UNCHANGED courseVars

(***************************************************************************)
(* updateUser and deleteUser: the UPDATE statement, then the check and the *)
(* invalidation; the webhook route answers 200 when they return.           *)
(***************************************************************************)
UpdateUserWrite(p) ==
    /\ pc[p] = "update_write"
    /\ \E failed \in BOOLEAN :
          LET st == UpdateWhereClerkUserId(UserTable, loc[p].x, loc[p].data)
              ids == IdsOf(st.returning)
          IN  IF failed \/ ~st.ok
              THEN /\ Respond(p, loc,
                              Thrown(loc[p], IF failed THEN DbConnectionError
                                             ELSE DbUniqueError))
                   /\ UNCHANGED <<UserTable, memoryCache, lastWrite>>
              ELSE /\ UserTable' = st.table
                   /\ memoryCache' = CommitEntries(memoryCache, p, ids)
                   /\ lastWrite' =
                        IF st.returning # {}
                        THEN [lastWrite EXCEPT ![loc[p].x] = loc[p].data.name]
                        ELSE lastWrite
                   /\ Continue(p, [CommitInFlight(loc, p, ids) EXCEPT
                                     ![p].row = First(st.returning)],
                               "update_reval")
    /\ UNCHANGED <<nextId, tagsManifest, publicMetadata, redacted>>
    /\ invalidation' = NoInvalidation
    /\ UNCHANGED courseVars

UpdateUserReturn(p) ==
    /\ pc[p] = "update_reval"
    /\ IF loc[p].row = {}
       THEN /\ Respond(p, loc, Thrown(loc[p], FailedToUpdate))
            /\ NoRevalidate
       ELSE LET tags == UNION {UserCacheTags(r.id) : r \in loc[p].row} IN
            /\ RevalidateTags(p, tags)
            /\ Respond(p, RevalidateInFlight(ReturnInFlight(loc, p), tags),
                       [loc[p] EXCEPT !.ret = WebhookOk])
    /\ UNCHANGED <<UserTable, nextId, publicMetadata, redacted, lastWrite>>
    /\ UNCHANGED courseVars

\* a deleteUser that removes the row: DELETE ... WHERE clerkUserId = x
HardDeleteUser(p) ==
    /\ pc[p] = "delete_write"
    /\ LET hit == {r \in UserTable : r.clerkUserId = loc[p].x} IN
          /\ UserTable' = UserTable \ hit
          /\ Continue(p, [loc EXCEPT ![p].row = First(hit)], "delete_reval")
    /\ invalidation' = NoInvalidation
    /\ UNCHANGED <<nextId, memoryCache, tagsManifest, publicMetadata,
                   redacted, lastWrite, courseVars>>

DeleteUserWrite(p) ==
    /\ pc[p] = "delete_write"
    /\ \E failed \in BOOLEAN :
          LET st == UpdateWhereClerkUserId(UserTable, loc[p].x, DeleteSet)
              ids == IdsOf(st.returning)
          IN  IF failed \/ ~st.ok
              THEN /\ Respond(p, loc,
                              Thrown(loc[p], IF failed THEN DbConnectionError
                                             ELSE DbUniqueError))
                   /\ UNCHANGED <<UserTable, memoryCache, lastWrite, redacted>>
              ELSE /\ UserTable' = st.table
                   /\ memoryCache' = CommitEntries(memoryCache, p, ids)
                   /\ lastWrite' =
                        IF st.returning # {}
                        THEN [lastWrite EXCEPT ![loc[p].x] = NULL]
                        ELSE lastWrite
                   /\ redacted' = IF st.returning # {}
                                  THEN redacted \cup {loc[p].x} ELSE redacted
                   /\ Continue(p, [CommitInFlight(loc, p, ids) EXCEPT
                                     ![p].row = First(st.returning)],
                               "delete_reval")
    /\ UNCHANGED <<nextId, tagsManifest, publicMetadata>>
    /\ invalidation' = NoInvalidation
    /\ UNCHANGED courseVars

DeleteUserReturn(p) ==
    /\ pc[p] = "delete_reval"
    /\ IF loc[p].row = {}
       THEN /\ Respond(p, loc, Thrown(loc[p], FailedToDelete))
            /\ NoRevalidate
       ELSE LET tags == UNION {UserCacheTags(r.id) : r \in loc[p].row} IN
            /\ RevalidateTags(p, tags)
            /\ Respond(p, RevalidateInFlight(ReturnInFlight(loc, p), tags),
                       [loc[p] EXCEPT !.ret = WebhookOk])
    /\ UNCHANGED <<UserTable, nextId, publicMetadata, redacted, lastWrite>>
    /\ UNCHANGED courseVars

(***************************************************************************)
(* getCurrentUser({allData}) for the session of identity x (NULL: nobody   *)
(* is signed in): the session claims carry the identity's public metadata. *)
(* Without a dbId the caller is sent to the sync route; with allData the   *)
(* row is read through getUser.                                            *)
(***************************************************************************)
SessionClaims(x) == IF x = NULL THEN NoMetadata ELSE publicMetadata[x]

\* a test of the dbId alone
NoDbId(userId, sessionClaims) == sessionClaims.dbId = NULL

\* userId != null && sessionClaims.dbId == null
NotSynced(userId, sessionClaims) ==
    userId # NULL /\ sessionClaims.dbId = NULL

GetCurrentUser(p, x) ==
    /\ pc[p] = "idle"
    /\ \E allData \in BOOLEAN :
          LET claims == SessionClaims(x)
              l == [IdleLoc EXCEPT !.op = "getCurrentUser", !.x = x,
                                   !.allData = allData]
          IN  IF NotSynced(x, claims)
              THEN Respond(p, loc, [l EXCEPT !.ret = NeedsSync])
              ELSE IF allData /\ claims.dbId # NULL
              THEN Continue(p, [loc EXCEPT ![p] =
                                  [l EXCEPT !.id = claims.dbId,
                                            !.role = claims.role]],
                            "getuser_lookup")
              ELSE Respond(p, loc, [l EXCEPT !.id = claims.dbId,
                                             !.role = claims.role,
                                             !.ret = Session])
    /\ UNCHANGED <<UserTable, nextId, memoryCache, tagsManifest,
                   publicMetadata, redacted, lastWrite>>
    /\ invalidation' = NoInvalidation
    /\ UNCHANGED courseVars

(***************************************************************************)
(* getUser(id): "use cache" with cacheTag(getUserIdTag(id)).  A hit        *)
(* returns the stored value; a miss runs the query and stores its result.  *)
(***************************************************************************)
GetUserLookup(p) ==
    /\ pc[p] = "getuser_lookup"
    /\ LET found == CacheGet(memoryCache, loc[p].id) IN
       IF found # {}
       THEN LET e == CHOOSE e \in found : TRUE IN
            Respond(p, loc, [loc[p] EXCEPT !.val = e.value, !.hit = TRUE,
                                           !.gotOld = e.old, !.ret = Session])
       ELSE Continue(p, [loc EXCEPT ![p].fresh = TRUE], "getuser_db")
    /\ UNCHANGED <<UserTable, nextId, memoryCache, tagsManifest,
                   publicMetadata, redacted, lastWrite>>
    /\ invalidation' = NoInvalidation
    /\ UNCHANGED courseVars

GetUserQuery(p) ==
    /\ pc[p] = "getuser_db"
    /\ Continue(p, [loc EXCEPT
                      ![p].val = FindFirstById(UserTable, loc[p].id),
                      ![p].missed = {}, ![p].old = FALSE],
                "getuser_set")
    /\ UNCHANGED <<UserTable, nextId, memoryCache, tagsManifest,
                   publicMetadata, redacted, lastWrite>>
    /\ invalidation' = NoInvalidation
    /\ UNCHANGED courseVars

\* variant: the result tagged with the user-scoped tag
NewEntryUserScoped(l) ==
    [key |-> l.id, value |-> l.val, tags |-> {getUserTag("users", l.id)},
     stale |-> ~l.fresh, missed |-> l.missed, old |-> l.old]

\* the entry a finished computation stores
NewEntry(l) ==
    [key |-> l.id, value |-> l.val, tags |-> {getUserIdTag(l.id)},
     stale |-> ~l.fresh, missed |-> l.missed, old |-> l.old]

\* a getUser that revalidates its own tag when it stores
StoreAndRevalidate(p) ==
    /\ pc[p] = "getuser_set"
    /\ tagsManifest' = tagsManifest \cup {getUserIdTag(loc[p].id)}
    /\ memoryCache' = CacheSet(memoryCache, NewEntry(loc[p]))
    /\ invalidation' = [by |-> p, op |-> loc[p].op,
                        tags |-> {getUserIdTag(loc[p].id)}, row |-> {}]
    /\ Respond(p, loc, [loc[p] EXCEPT !.ret = Session])
    /\ UNCHANGED <<userVars, courseVars>>

GetUserStore(p) ==
    /\ pc[p] = "getuser_set"
    /\ memoryCache' = CacheSet(memoryCache, NewEntry(loc[p]))
    /\ Respond(p, loc, [loc[p] EXCEPT !.ret = Session])
    /\ UNCHANGED <<UserTable, nextId, tagsManifest, publicMetadata, redacted,
                   lastWrite>>
    /\ invalidation' = NoInvalidation
    /\ UNCHANGED courseVars

(***************************************************************************)
(* The course repository and the server actions that call it.  A server    *)
(* action validates its input, asks getCurrentUser for the caller's role,  *)
(* and calls the repository function; the function runs its statement,     *)
(* throws when no row came back, and revalidates the course's tags.        *)
(***************************************************************************)
MaxCourses == 2

Cid(n) == "c" \o ToString(n)

CourseIdArgs == {Cid(n) : n \in 1..MaxCourses}

CourseInputs == { [title |-> "TLA+", description |-> "Specifying systems"],
                  [title |-> "", description |-> "Specifying systems"] }

\* courseSchema.safeParse(unsafeData).success
courseSchema(unsafeData) ==
    unsafeData.title # "" /\ unsafeData.description # ""

canCreateCourse(role) == role = "admin"
canUpdateCourse(role) == role = "admin"
canDeleteCourse(role) == role = "admin"

getCourseGlobalTag == getGlobalTag("courses")
getCourseIdTag(id) == getIdTag("courses", id)

\* the tags revalidateCourseCache(id) revalidates
CourseCacheTags(id) == {getCourseGlobalTag, getCourseIdTag(id)}

FailedToCreateCourse == "Failed to create course"
FailedToUpdateCourse == "Failed to update course"
FailedToDeleteCourse == "Failed to delete course"
CourseActionError == "error:true"
CourseDeleted == "error:false"
Undefined == "undefined"

CourseCalls ==
    {[action |-> "createCourse", id |-> NULL, data |-> d] : d \in CourseInputs}
    \cup {[action |-> "updateCourse", id |-> i, data |-> d] :
              i \in CourseIdArgs, d \in CourseInputs}
    \cup {[action |-> "deleteCourse", id |-> i, data |-> NoData] :
              i \in CourseIdArgs}

\* the repository step a permitted action goes on with
CourseStatement(action) ==
    IF action = "createCourse" THEN "course_insert"
    ELSE IF action = "updateCourse" THEN "course_update"
    ELSE "course_delete"

\* createCourse(unsafeData), updateCourse(id, unsafeData), deleteCourse(id)
\* called in the session of identity x, up to the repository call
CourseActionStart(p, x) ==
    /\ pc[p] = "idle"
    /\ \E call \in CourseCalls :
          LET claims == SessionClaims(x)
              l == [IdleLoc EXCEPT !.op = call.action, !.x = x,
                                   !.id = call.id, !.data = call.data]
              success == call.action = "deleteCourse" \/ courseSchema(call.data)
              can == IF call.action = "createCourse"
                     THEN canCreateCourse(claims.role)
                     ELSE IF call.action = "updateCourse"
                     THEN canUpdateCourse(claims.role)
                     ELSE canDeleteCourse(claims.role)
          IN  IF ~success
              THEN Respond(p, loc, [l EXCEPT !.ret = CourseActionError])
              ELSE IF x # NULL /\ claims.dbId = NULL
              THEN Respond(p, loc, [l EXCEPT !.ret = NeedsSync])
              ELSE IF ~can
              THEN Respond(p, loc, [l EXCEPT !.role = claims.role,
                                             !.ret = CourseActionError])
              ELSE Continue(p, [loc EXCEPT ![p] =
                                  [l EXCEPT !.role = claims.role]],
                            CourseStatement(call.action))
    /\ invalidation' = NoInvalidation
    /\ UNCHANGED <<userVars, courseVars, memoryCache, tagsManifest>>

\* db.insert(CourseTable).values(data).returning()
InsertCourseWrite(p) ==
    /\ pc[p] = "course_insert"
    /\ \E failed \in BOOLEAN :
          IF failed
          THEN /\ Respond(p, loc, Thrown(loc[p], DbConnectionError))
               /\ UNCHANGED courseVars
          ELSE LET new == [id |-> Cid(nextCourseId),
                           title |-> loc[p].data.title,
                           description |-> loc[p].data.description]
               IN  /\ nextCourseId <= MaxCourses
                   /\ CourseTable' = CourseTable \cup {new}
                   /\ nextCourseId' = nextCourseId + 1
                   /\ UNCHANGED sectionVars
                   /\ Continue(p, [loc EXCEPT ![p].row = {new}],
                               "course_insert_reval")
    /\ invalidation' = NoInvalidation
    /\ UNCHANGED <<userVars, memoryCache, tagsManifest>>

\* db.update(CourseTable).set(data).where(eq(CourseTable.id, id)).returning()
UpdateCourseWrite(p) ==
    /\ pc[p] = "course_update"
    /\ \E failed \in BOOLEAN :
          IF failed
          THEN /\ Respond(p, loc, Thrown(loc[p], DbConnectionError))
               /\ UNCHANGED courseVars
          ELSE LET hit == {r \in CourseTable : r.id = loc[p].id}
                   new == {ApplySet(r, loc[p].data) : r \in hit}
               IN  /\ CourseTable' = (CourseTable \ hit) \cup new
                   /\ UNCHANGED <<nextCourseId, sectionVars>>
                   /\ Continue(p, [loc EXCEPT ![p].row = First(new)],
                               "course_update_reval")
    /\ invalidation' = NoInvalidation
    /\ UNCHANGED <<userVars, memoryCache, tagsManifest>>

\* a deleteCourseDB that revalidates the tags of its argument first and
\* deletes afterwards
RevalidateBeforeDelete(p) ==
    /\ pc[p] = "course_delete"
    /\ RevalidateTags(p, CourseCacheTags(loc[p].id))
    /\ Continue(p, loc, "course_delete_reval")
    /\ UNCHANGED <<userVars, courseVars>>

\* db.delete(CourseTable).where(eq(CourseTable.id, id)).returning()
\* The sections of a deleted course go with it (courseId: CASCADE on delete).
DeleteCourseWrite(p) ==
    /\ pc[p] = "course_delete"
    /\ \E failed \in BOOLEAN :
          IF failed
          THEN /\ Respond(p, loc, Thrown(loc[p], DbConnectionError))
               /\ UNCHANGED courseVars
          ELSE LET hit == {r \in CourseTable : r.id = loc[p].id}
               IN  /\ CourseTable' = CourseTable \ hit
                   /\ SectionTable' = {t \in SectionTable :
                                         t.courseId \notin IdsOf(hit)}
                   /\ UNCHANGED <<nextCourseId, nextSectionId>>
                   /\ Continue(p, [loc EXCEPT ![p].row = First(hit)],
                               "course_delete_reval")
    /\ invalidation' = NoInvalidation
    /\ UNCHANGED <<userVars, memoryCache, tagsManifest>>

\* what the server action answers once its repository function has returned
CourseActionResult(l) ==
    IF l.op = "createCourse"
    THEN "redirect:/admin/courses/" \o (CHOOSE r \in l.row : TRUE).id \o "/edit"
    ELSE IF l.op = "updateCourse" THEN Undefined
    ELSE CourseDeleted

\* if (!newCourse) throw ...; revalidateCourseCache(newCourse.id)
InsertCourseReturn(p) ==
    /\ pc[p] = "course_insert_reval"
    /\ IF loc[p].row = {}
       THEN /\ Respond(p, loc, Thrown(loc[p], FailedToCreateCourse))
            /\ NoRevalidate
       ELSE LET tags == UNION {CourseCacheTags(r.id) : r \in loc[p].row} IN
            /\ RevalidateTags(p, tags)
            /\ Respond(p, loc,
                       [loc[p] EXCEPT !.ret = CourseActionResult(loc[p])])
    /\ UNCHANGED <<userVars, courseVars>>

\* if (!updatedCourse) throw ...; revalidateCourseCache(updatedCourse.id)
UpdateCourseReturn(p) ==
    /\ pc[p] = "course_update_reval"
    /\ IF loc[p].row = {}
       THEN /\ Respond(p, loc, Thrown(loc[p], FailedToUpdateCourse))
            /\ NoRevalidate
       ELSE LET tags == UNION {CourseCacheTags(r.id) : r \in loc[p].row} IN
            /\ RevalidateTags(p, tags)
            /\ Respond(p, loc,
                       [loc[p] EXCEPT !.ret = CourseActionResult(loc[p])])
    /\ UNCHANGED <<userVars, courseVars>>

\* if (!deletedCourse) throw ...; revalidateCourseCache(deletedCourse.id)
DeleteCourseReturn(p) ==
    /\ pc[p] = "course_delete_reval"
    /\ IF loc[p].row = {}
       THEN /\ Respond(p, loc, Thrown(loc[p], FailedToDeleteCourse))
            /\ NoRevalidate
       ELSE LET tags == UNION {CourseCacheTags(r.id) : r \in loc[p].row} IN
            /\ RevalidateTags(p, tags)
            /\ Respond(p, loc,
                       [loc[p] EXCEPT !.ret = CourseActionResult(loc[p])])
    /\ UNCHANGED <<userVars, courseVars>>

(***************************************************************************)
(* Course sections: the server actions of features/courseSection.          *)
(* createSection asks for the next order of the course and inserts the     *)
(* section in a second statement; deleteSection hands its argument to      *)
(* deleteCourseDB.  The functions of ../db/sections and the schema of      *)
(* ../schemas/sections follow the course functions and the course schema.  *)
(***************************************************************************)
MaxSections == 2

Sid(n) == "s" \o ToString(n)

SectionIdArgs == {Sid(n) : n \in 1..MaxSections}

SectionInputs == { [name |-> "Intro", status |-> "public"],
                   [name |-> "", status |-> "public"] }

\* sectionSchema.safeParse(unsafeData).success
sectionSchema(unsafeData) == unsafeData.name # ""

\* variant: a permission check that lets everybody pass
Anyone(role) == TRUE

canCreateSection(role) == role = "admin"
canUpdateSection(role) == role = "admin"
canDeleteSection(role) == role = "admin"

getCourseTag(tag, courseId) == "course:" \o courseId \o "-" \o tag

\* the tags the section repository revalidates for the row r
SectionCacheTags(r) ==
    {getGlobalTag("courseSections"), getIdTag("courseSections", r.id),
     getCourseTag("courseSections", r.courseId)}

\* getNextCourseSectionOrder(courseId): one more than the highest order of
\* the course's sections, 0 for a course without sections
NextOrder(table, courseId) ==
    LET orders == {t.order : t \in {u \in table : u.courseId = courseId}}
    IN  IF orders = {} THEN 0
        ELSE (CHOOSE n \in orders : \A m \in orders : m <= n) + 1


\* the id a client hands to updateSection or deleteSection is a string: the
\* id of a section, or any other id
SectionCalls ==
    {[action |-> "createSection", id |-> i, data |-> d] :
        i \in CourseIdArgs, d \in SectionInputs}
    \cup {[action |-> "updateSection", id |-> i, data |-> d] :
              i \in SectionIdArgs, d \in SectionInputs}
    \cup {[action |-> "deleteSection", id |-> i, data |-> NoData] :
              i \in SectionIdArgs \cup CourseIdArgs}

\* the step a permitted action goes on with
SectionStatement(action) ==
    IF action = "createSection" THEN "section_order"
    ELSE IF action = "updateSection" THEN "section_update"
    ELSE "course_delete"

\* createSection(courseId, unsafeData), updateSection(id, unsafeData),
\* deleteSection(id) called in the session of identity x
SectionActionStart(p, x) ==
    /\ pc[p] = "idle"
    /\ \E call \in SectionCalls :
          LET claims == SessionClaims(x)
              l == [IdleLoc EXCEPT !.op = call.action, !.x = x,
                                   !.id = call.id, !.data = call.data]
              success == call.action = "deleteSection" \/ sectionSchema(call.data)
              can == IF call.action = "createSection"
                     THEN canCreateSection(claims.role)
                     ELSE IF call.action = "updateSection"
                     THEN canUpdateSection(claims.role)
                     ELSE canDeleteSection(claims.role)
          IN  IF ~success
              THEN Respond(p, loc, [l EXCEPT !.ret = CourseActionError])
              ELSE IF x # NULL /\ claims.dbId = NULL
              THEN Respond(p, loc, [l EXCEPT !.ret = NeedsSync])
              ELSE IF ~can
              THEN Respond(p, loc, [l EXCEPT !.role = claims.role,
                                             !.ret = CourseActionError])
              ELSE Continue(p, [loc EXCEPT ![p] =
                                  [l EXCEPT !.role = claims.role]],
                            SectionStatement(call.action))
    /\ invalidation' = NoInvalidation
    /\ UNCHANGED <<userVars, courseVars, memoryCache, tagsManifest>>

\* const order = await getNextCourseSectionOrder(courseId)
GetNextCourseSectionOrder(p) ==
    /\ pc[p] = "section_order"
    /\ \E failed \in BOOLEAN :
          IF failed
          THEN Respond(p, loc, Thrown(loc[p], DbConnectionError))
          ELSE Continue(p, [loc EXCEPT ![p].data =
                              [name |-> loc[p].data.name,
                               status |-> loc[p].data.status,
                               courseId |-> loc[p].id,
                               order |-> NextOrder(SectionTable, loc[p].id)]],
                        "section_insert")
    /\ invalidation' = NoInvalidation
    /\ UNCHANGED <<userVars, courseVars, memoryCache, tagsManifest>>

\* await insertSection({ ...data, courseId, order }): the INSERT
InsertSectionWrite(p) ==
    /\ pc[p] = "section_insert"
    /\ \E failed \in BOOLEAN :
          IF failed \/ loc[p].data.courseId \notin IdsOf(CourseTable)
          THEN /\ Respond(p, loc,
                          Thrown(loc[p], IF failed THEN DbConnectionError
                                         ELSE "violates foreign key constraint"))
               /\ UNCHANGED courseVars
          ELSE LET new == [id |-> Sid(nextSectionId),
                           courseId |-> loc[p].data.courseId,
                           name |-> loc[p].data.name,
                           status |-> loc[p].data.status,
                           order |-> loc[p].data.order]
               IN  /\ nextSectionId <= MaxSections
                   /\ SectionTable' = SectionTable \cup {new}
                   /\ nextSectionId' = nextSectionId + 1
                   /\ UNCHANGED <<CourseTable, nextCourseId>>
                   /\ Continue(p, [loc EXCEPT ![p].row = {new}],
                               "section_insert_reval")
    /\ invalidation' = NoInvalidation
    /\ UNCHANGED <<userVars, memoryCache, tagsManifest>>

\* insertSection's check and invalidation; createSection's answer
InsertSectionReturn(p) ==
    /\ pc[p] = "section_insert_reval"
    /\ IF loc[p].row = {}
       THEN /\ Respond(p, loc, Thrown(loc[p], "Failed to create section"))
            /\ NoRevalidate
       ELSE LET tags == UNION {SectionCacheTags(r) : r \in loc[p].row} IN
            /\ RevalidateTags(p, tags)
            /\ Respond(p, loc, [loc[p] EXCEPT !.ret = "error:false"])
    /\ UNCHANGED <<userVars, courseVars>>

\* await updateSectionDB(id, data): the UPDATE
UpdateSectionWrite(p) ==
    /\ pc[p] = "section_update"
    /\ \E failed \in BOOLEAN :
          IF failed
          THEN /\ Respond(p, loc, Thrown(loc[p], DbConnectionError))
               /\ UNCHANGED courseVars
          ELSE LET hit == {r \in SectionTable : r.id = loc[p].id}
                   new == {ApplySet(r, loc[p].data) : r \in hit}
               IN  /\ SectionTable' = (SectionTable \ hit) \cup new
                   /\ UNCHANGED <<CourseTable, nextCourseId, nextSectionId>>
                   /\ Continue(p, [loc EXCEPT ![p].row = First(new)],
                               "section_update_reval")
    /\ invalidation' = NoInvalidation
    /\ UNCHANGED <<userVars, memoryCache, tagsManifest>>

\* updateSectionDB's check and invalidation; updateSection returns nothing
UpdateSectionReturn(p) ==
    /\ pc[p] = "section_update_reval"
    /\ IF loc[p].row = {}
       THEN /\ Respond(p, loc, Thrown(loc[p], "Failed to update section"))
            /\ NoRevalidate
       ELSE LET tags == UNION {SectionCacheTags(r) : r \in loc[p].row} IN
            /\ RevalidateTags(p, tags)
            /\ Respond(p, loc, [loc[p] EXCEPT !.ret = Undefined])
    /\ UNCHANGED <<userVars, courseVars>>

(***************************************************************************)
(* The handlers of process p, with requests on behalf of the identities X. *)
(***************************************************************************)
Repository(p) ==
    \/ InsertUserWrite(p)
    \/ InsertUserReturn(p)
    \/ UpdateUserWrite(p)
    \/ UpdateUserReturn(p)
    \/ DeleteUserWrite(p)
    \/ DeleteUserReturn(p)

SyncRoute(p, X) ==
    \/ \E x \in X \cup {NULL} : SyncStart(p, x)
    \/ SyncMetadata(p)

WebhookRoute(p, X) ==
    \/ \E x \in X : WebhookStart(p, x)
    \/ WebhookMetadata(p)

SessionResolver(p, X) ==
    \/ \E x \in X \cup {NULL} : GetCurrentUser(p, x)
    \/ GetUserLookup(p)
    \/ GetUserQuery(p)
    \/ GetUserStore(p)

CourseRepository(p) ==
    \/ InsertCourseWrite(p)
    \/ InsertCourseReturn(p)
    \/ UpdateCourseWrite(p)
    \/ UpdateCourseReturn(p)
    \/ DeleteCourseWrite(p)
    \/ DeleteCourseReturn(p)

CourseActions(p, X) == \E x \in X \cup {NULL} : CourseActionStart(p, x)

SectionRepository(p) ==
    \/ GetNextCourseSectionOrder(p)
    \/ InsertSectionWrite(p)
    \/ InsertSectionReturn(p)
    \/ UpdateSectionWrite(p)
    \/ UpdateSectionReturn(p)

SectionActions(p, X) == \E x \in X \cup {NULL} : SectionActionStart(p, x)

OneIdentity == {"user_a"}

\* two handlers at once, requests about one identity: the orchestrator
Next ==
    \E p \in Procs :
        SyncRoute(p, OneIdentity) \/ WebhookRoute(p, OneIdentity)
            \/ Repository(p)

Spec == Init /\ [][Next]_vars

\* two handlers at once, requests about one identity: lifecycle events
\* and session reads
NextCache ==
    \E p \in Procs :
        WebhookRoute(p, OneIdentity) \/ Repository(p)
            \/ SessionResolver(p, OneIdentity)

SpecCache == Init /\ [][NextCache]_vars

\* one handler at a time, requests about both identities
NextSeq ==
    SyncRoute(1, ExternalIds) \/ WebhookRoute(1, ExternalIds)
        \/ Repository(1) \/ SessionResolver(1, ExternalIds)

SpecSeq == Init /\ [][NextSeq]_vars

(***************************************************************************)
(* One identity that signs in and is sent to the sync route for as long as *)
(* getCurrentUser finds no dbId: the sync route, insertUser and the        *)
(* session resolver, one request at a time.  The caller comes back after   *)
(* each failure, and the failures end: each step of the sync that can      *)
(* succeed infinitely often does succeed.                                  *)
(***************************************************************************)
NextRetry ==
    SyncRoute(1, OneIdentity) \/ InsertUserWrite(1) \/ InsertUserReturn(1)
        \/ SessionResolver(1, OneIdentity)

\* a sync request of the identity that gets past the email check
SyncAttempt ==
    \E x \in OneIdentity : SyncStart(1, x) /\ pc'[1] = "insert_write"

\* the upsert statement answers
UpsertDone == InsertUserWrite(1) /\ pc'[1] = "insert_reval"

\* the identity provider accepts the metadata
WriteBackDone == SyncMetadata(1) /\ response'.err # ClerkApiError

RetryFairness ==
    /\ SF_vars(SyncAttempt)
    /\ SF_vars(UpsertDone)
    /\ WF_vars(InsertUserReturn(1))
    /\ SF_vars(WriteBackDone)

SpecRetry == Init /\ [][NextRetry]_vars /\ RetryFairness

\* the identity has signed up, was synchronized, and was made an admin
AdminRow ==
    NewUserRow(Uuid(1), [clerkUserId |-> "user_a", name |-> "Ada",
                         email |-> Email, imageUrl |-> ImageUrl,
                         role |-> "admin"])

InitRepo ==
    /\ UserTable = {AdminRow}
    /\ nextId = 2
    /\ CourseTable = {}
    /\ nextCourseId = 1
    /\ SectionTable = {}
    /\ nextSectionId = 1
    /\ memoryCache = {}
    /\ tagsManifest = {}
    /\ publicMetadata = [x \in ExternalIds |->
                           IF x = "user_a"
                           THEN [dbId |-> Uuid(1), role |-> "admin"]
                           ELSE NoMetadata]
    /\ pc = [p \in Procs |-> "idle"]
    /\ loc = [p \in Procs |-> IdleLoc]
    /\ response = IdleLoc
    /\ invalidation = NoInvalidation
    /\ redacted = {}
    /\ lastWrite = [x \in ExternalIds |-> IF x = "user_a" THEN "Ada" ELSE NULL]

\* one handler of lifecycle events and one of course actions, both about
\* one identity
NextRepo ==
    \/ WebhookRoute(1, OneIdentity)
    \/ Repository(1)
    \/ CourseActions(2, OneIdentity)
    \/ CourseRepository(2)

SpecRepo == InitRepo /\ [][NextRepo]_vars

\* an administrator is linked and one course exists
InitSection ==
    /\ UserTable = {AdminRow}
    /\ nextId = 2
    /\ CourseTable = {[id |-> Cid(1), title |-> "TLA+",
                      description |-> "Specifying systems"]}
    /\ nextCourseId = 2
    /\ SectionTable = {}
    /\ nextSectionId = 1
    /\ memoryCache = {}
    /\ tagsManifest = {}
    /\ publicMetadata = [x \in ExternalIds |->
                           IF x = "user_a"
                           THEN [dbId |-> Uuid(1), role |-> "admin"]
                           ELSE NoMetadata]
    /\ pc = [p \in Procs |-> "idle"]
    /\ loc = [p \in Procs |-> IdleLoc]
    /\ response = IdleLoc
    /\ invalidation = NoInvalidation
    /\ redacted = {}
    /\ lastWrite = [x \in ExternalIds |-> NULL]

\* two section actions at once, in the sessions of the administrator and
\* of nobody; deleteCourseDB is what deleteSection calls
NextSection ==
    \E p \in Procs :
        \/ SectionActions(p, OneIdentity)
        \/ SectionRepository(p)
        \/ DeleteCourseWrite(p)
        \/ DeleteCourseReturn(p)

SpecSection == InitSection /\ [][NextSection]_vars

\* course actions and section actions one after the other, in the sessions
\* of the administrator, of an identity without row and of nobody
NextAdmin ==
    \/ CourseActions(1, ExternalIds)
    \/ CourseRepository(1)
    \/ SectionActions(1, ExternalIds)
    \/ SectionRepository(1)

SpecAdmin == InitSection /\ [][NextAdmin]_vars

(***************************************************************************)
(* The pure functions, each applied once to an argument drawn from a       *)
(* bounded set: process 1 holds the call, and the step that applies the    *)
(* function leaves the argument and the result in response.                *)
(***************************************************************************)
NameProfiles ==
    [fullName : {NULL, "", "Ada Lovelace"}, firstName : {NULL, "", "Ada"},
     lastName : {NULL, "", "Lovelace"}, username : {NULL, "", "ada"}]

\* CACHE_TAG, and identifiers to tag
CacheTagKinds == {"users", "courses", "userCourseAccess"}

TagIds == {"abc", "user-123", Uuid(1)}

TagArgs == [tag : CacheTagKinds, id : TagIds]

\* variant: an access tag that leaves the user out
AccessTagOfCourse(userId, courseId) ==
    getIdTag("userCourseAccess", "course:" \o courseId)

\* getUserCourseAccessIdTag({ userId, courseId })
getUserCourseAccessIdTag(userId, courseId) ==
    getIdTag("userCourseAccess", "course:" \o courseId \o "-user:" \o userId)

\* the tags revalidateUserCourseAccessCache({ userId, courseId }) hands to
\* revalidateTag
UserCourseAccessCacheTags(userId, courseId) ==
    {getGlobalTag("userCourseAccess"),
     getUserCourseAccessIdTag(userId, courseId),
     getUserTag("userCourseAccess", userId)}

PureCalls ==
    {[fn |-> "DeriveName", arg |-> u] : u \in NameProfiles}
    \cup {[fn |-> f, arg |-> a] :
              f \in {"getGlobalTag", "getIdTag", "getUserTag"}, a \in TagArgs}
    \cup {[fn |-> f, arg |-> [tag |-> "users", id |-> i]] :
              f \in {"cacheTag", "revalidateUserCache"}, i \in TagIds}
    \cup {[fn |-> f, arg |-> [userId |-> u, courseId |-> c]] :
              f \in {"getUserCourseAccessIdTag",
                     "revalidateUserCourseAccessCache"},
              u \in {Uuid(1), Uuid(2), "u1-user:u1"},
              c \in {Cid(1), Cid(2), "c1-user:u1"}}

InitPure ==
    /\ UserTable = {}
    /\ nextId = 1
    /\ CourseTable = {}
    /\ nextCourseId = 1
    /\ SectionTable = {}
    /\ nextSectionId = 1
    /\ memoryCache = {}
    /\ tagsManifest = {}
    /\ publicMetadata = [x \in ExternalIds |-> NoMetadata]
    /\ \E c \in PureCalls :
          /\ pc = [p \in Procs |-> IF p = 1 THEN c.fn ELSE "idle"]
          /\ loc = [p \in Procs |->
                      IF p = 1
                      THEN [IdleLoc EXCEPT !.op = c.fn, !.data = c.arg]
                      ELSE IdleLoc]
    /\ response = IdleLoc
    /\ invalidation = NoInvalidation
    /\ redacted = {}
    /\ lastWrite = [x \in ExternalIds |-> NULL]

\* the call of process 1 returns ret
Return(ret) ==
    /\ pc' = [pc EXCEPT ![1] = "idle"]
    /\ loc' = [loc EXCEPT ![1] = IdleLoc]
    /\ response' = [loc[1] EXCEPT !.ret = ret]
    /\ invalidation' = NoInvalidation
    /\ UNCHANGED <<userVars, courseVars, memoryCache, tagsManifest>>

ApplyDeriveName ==
    /\ pc[1] = "DeriveName"
    /\ Return(DeriveName(loc[1].data))

ApplyGetGlobalTag ==
    /\ pc[1] = "getGlobalTag"
    /\ Return(getGlobalTag(loc[1].data.tag))

ApplyGetIdTag ==
    /\ pc[1] = "getIdTag"
    /\ Return(getIdTag(loc[1].data.tag, loc[1].data.id))

ApplyGetUserTag ==
    /\ pc[1] = "getUserTag"
    /\ Return(getUserTag(loc[1].data.tag, loc[1].data.id))

\* the tags getUser(id) attaches to its result
ApplyCacheTag ==
    /\ pc[1] = "cacheTag"
    /\ Return(NewEntry([IdleLoc EXCEPT !.id = loc[1].data.id]).tags)

\* the tags revalidateUserCache(id) hands to revalidateTag
ApplyRevalidateUserCache ==
    /\ pc[1] = "revalidateUserCache"
    /\ Return(UserCacheTags(loc[1].data.id))

ApplyGetUserCourseAccessIdTag ==
    /\ pc[1] = "getUserCourseAccessIdTag"
    /\ Return(getUserCourseAccessIdTag(loc[1].data.userId,
                                       loc[1].data.courseId))

ApplyRevalidateUserCourseAccessCache ==
    /\ pc[1] = "revalidateUserCourseAccessCache"
    /\ Return(UserCourseAccessCacheTags(loc[1].data.userId,
                                        loc[1].data.courseId))

\* the next call of a function; the result of the call before it stays in
\* response until this one returns
CallPure ==
    /\ pc[1] = "idle"
    /\ \E c \in PureCalls :
          /\ pc' = [pc EXCEPT ![1] = c.fn]
          /\ loc' = [loc EXCEPT ![1] =
                        [IdleLoc EXCEPT !.op = c.fn, !.data = c.arg]]
    /\ UNCHANGED <<response, invalidation, userVars, courseVars, memoryCache,
                   tagsManifest>>

NextPure ==
    \/ CallPure
    \/ ApplyGetUserCourseAccessIdTag
    \/ ApplyRevalidateUserCourseAccessCache
    \/ ApplyDeriveName
    \/ ApplyGetGlobalTag
    \/ ApplyGetIdTag
    \/ ApplyGetUserTag
    \/ ApplyCacheTag
    \/ ApplyRevalidateUserCache

SpecPure == InitPure /\ [][NextPure]_vars

(***************************************************************************)
(* Properties of the user repository, the cache and the routes.            *)
(***************************************************************************)

OrderingRule ==
    invalidation.tags # {} =>
        /\ invalidation.row # {}
        /\ \A r \in invalidation.row :
              IF invalidation.op \in {"createCourse", "updateCourse"}
              THEN r \in CourseTable /\ invalidation.tags = CourseCacheTags(r.id)
              ELSE IF invalidation.op = "deleteCourse"
              THEN /\ r.id \notin IdsOf(CourseTable)
                   /\ invalidation.tags = CourseCacheTags(r.id)
              ELSE r \in UserTable /\ invalidation.tags = UserCacheTags(r.id)

\* a course mutation has just revalidated, user mutations did before
CourseRevalidatedAfterUser ==
    /\ invalidation.op = "deleteCourse"
    /\ getCourseGlobalTag \in invalidation.tags
    /\ getUserGlobalTag \in tagsManifest

\* C3  updateUser and deleteUser for an external id that matches no row:
\* the statement returns no row and leaves the table as it was, and the
\* function then throws its own error, different from the one insertUser
\* throws, without touching the table, the tags or the cache.
NotFoundOutcome ==
    [][\A p \in Procs :
          /\ (/\ pc[p] \in {"update_write", "delete_write"}
              /\ pc'[p] \in {"update_reval", "delete_reval"}
              /\ ~ \E r \in UserTable : r.clerkUserId = loc[p].x)
             => (loc'[p].row = {} /\ UserTable' = UserTable)
          /\ (/\ pc[p] \in {"update_reval", "delete_reval"}
              /\ loc[p].row = {}
              /\ pc'[p] = "idle")
             => /\ response'.err = IF pc[p] = "update_reval"
                                   THEN FailedToUpdate ELSE FailedToDelete
                /\ response'.err # FailedToCreate
                /\ UserTable' = UserTable
                /\ tagsManifest' = tagsManifest
                /\ memoryCache' = memoryCache
                /\ invalidation' = NoInvalidation]_vars

\* updateUser has failed for an identity whose row was redacted
UpdateOfMissingRowFailed ==
    /\ response.err = FailedToUpdate
    /\ response.x \in redacted
    /\ ~ \E r \in UserTable : r.clerkUserId = response.x

\* the columns of row r that data names hold the values of data
SameFields(r, data) == \A f \in DOMAIN data : r[f] = data[f]

\* C4  Upsert idempotence: an insertUser whose values are the ones the row
\* of that external id already holds leaves the table as it was (same rows,
\* same count) and returns that row, with its id.
UpsertIdempotence ==
    [][\A p \in Procs :
          (pc[p] = "insert_write" /\ pc'[p] = "insert_reval")
          => \A r \in UserTable :
                (r.clerkUserId = loc[p].data.clerkUserId
                    /\ SameFields(r, loc[p].data))
                => /\ UserTable' = UserTable
                   /\ Cardinality(UserTable') = Cardinality(UserTable)
                   /\ loc'[p].row = {r}]_vars

\* a second insertUser with the values of the first has run its statement
SecondIdenticalUpsert ==
    \E p \in Procs :
        /\ pc[p] = "insert_reval"
        /\ loc[p].before # {}
        /\ loc[p].before = loc[p].row
        /\ \A r \in loc[p].before : SameFields(r, loc[p].data)

\* C5  Concurrent upsert convergence: no external id has two rows, and
\* while it has not been redacted the row of an external id holds the name
\* of the write that committed last.
UpsertConvergence ==
    \A x \in ExternalIds :
        /\ Cardinality({r \in UserTable : r.clerkUserId = x}) <= 1
        /\ lastWrite[x] # NULL =>
              \E r \in UserTable : r.clerkUserId = x /\ r.name = lastWrite[x]

\* two interactive syncs of a new identity, with different names, have both
\* run their statement
TwoSyncsRaced ==
    /\ \A p \in Procs : pc[p] = "insert_reval" /\ loc[p].op = "sync"
                           /\ loc[p].row # {}
    /\ loc[1].data.name # loc[2].data.name
    /\ loc[1].data.clerkUserId = loc[2].data.clerkUserId
    /\ \E p \in Procs : loc[p].before = {}
    /\ Cardinality(UserTable) = 1

\* the row r holds the values deleteUser sets
Redacted(r) ==
    /\ r.deletedAt # NULL
    /\ r.name = DeletedName
    /\ r.email = DeletedEmail
    /\ r.clerkUserId = DeletedClerkUserId
    /\ r.imageUrl = NULL

\* the part of C6 that concerns the row: a row with deletedAt set holds the
\* sentinels and is never changed again
RedactedRowKept ==
    [][\A r \in UserTable : r.deletedAt # NULL => Redacted(r) /\ r \in UserTable']_vars

\* C6  Redaction irreversibility: a row with deletedAt set holds the
\* sentinels and is never changed again, and every updateUser for an
\* external id that deleteUser has redacted throws "Failed to update user".
RedactionIrreversible ==
    [][/\ \A r \in UserTable :
             r.deletedAt # NULL => Redacted(r) /\ r \in UserTable'
       /\ \A p \in Procs :
             (pc[p] = "update_reval" /\ loc[p].x \in redacted
                 /\ pc'[p] = "idle")
             => response'.err = FailedToUpdate]_vars

\* C7  Redacted is terminal: an insertUser for an external id that
\* deleteUser has redacted fails and leaves the table as it was, and no row
\* carries a redacted external id.
RedactedIsTerminal ==
    [][/\ \A p \in Procs :
             (pc[p] = "insert_write" /\ loc[p].x \in redacted
                 /\ pc'[p] # pc[p])
             => (pc'[p] = "idle" /\ response'.err # NULL
                    /\ UserTable' = UserTable)
       /\ \A r \in UserTable' : r.clerkUserId \notin redacted']_vars

\* C8  Users are never hard-removed: no step takes an id out of the table,
\* and no two rows share an id.
NeverHardRemoved ==
    [][/\ IdsOf(UserTable) \subseteq IdsOf(UserTable')
       /\ Cardinality(IdsOf(UserTable')) = Cardinality(UserTable')]_vars

\* the webhook has answered a user.deleted event, and the row is still there
DeletedRowStillThere ==
    /\ response.evt = "user.deleted"
    /\ response.ret = WebhookOk
    /\ response.row # {}
    /\ \A d \in response.row :
          \E r \in UserTable : r.id = d.id /\ r.deletedAt # NULL

\* C9  Missing-email rejection: an interactive sync of a signed-in identity
\* whose profile has no primary email, or an empty one, answers "User email
\* missing" in the step it starts in, and that step changes neither the
\* tables nor the tags, the cache or the identity's metadata; a sync that
\* goes on to insertUser has an email.
MissingEmailRejected ==
    [][/\ \A p \in Procs :
             (pc[p] = "idle" /\ pc'[p] # "idle" /\ loc'[p].op = "sync")
             => loc'[p].email \notin {NULL, ""}
       /\ (response'.op = "sync" /\ response'.x # NULL
              /\ response'.email \in {NULL, ""})
          => /\ response'.ret = EmailMissingResponse
             /\ UNCHANGED <<UserTable, nextId, CourseTable, tagsManifest,
                            memoryCache, publicMetadata>>
             /\ invalidation' = NoInvalidation]_vars

\* a sync with an empty email has been rejected after an earlier sync of
\* the same identity went through
EmptyEmailRejected ==
    /\ response.op = "sync"
    /\ response.email = ""
    /\ response.ret = EmailMissingResponse
    /\ publicMetadata[response.x].dbId # NULL

\* C10  Link implies row: the dbId in an identity's metadata is the id of a
\* row of the table, and a handler that is about to write the metadata
\* holds the row its insertUser returned, which is in the table.
LinkImpliesRow ==
    /\ \A x \in ExternalIds :
          publicMetadata[x].dbId # NULL =>
             \E r \in UserTable : r.id = publicMetadata[x].dbId
    /\ \A p \in Procs :
          pc[p] \in {"sync_meta", "wh_meta"} =>
             /\ loc[p].row # {}
             /\ IdsOf(loc[p].row) \subseteq IdsOf(UserTable)

\* an interactive sync of a linked identity has failed
SyncFailedWhileLinked ==
    /\ response.op = "sync"
    /\ response.err # NULL
    /\ publicMetadata[response.x].dbId # NULL

\* C11  Unlinked-session flow: when the interactive sync of an identity
\* whose metadata held no dbId answers with its redirect, exactly one row
\* carries the identity's external id; it holds the derived name and the
\* email of the request, and the role "user" when the metadata named no
\* role; and the metadata holds that row's id and role.
UnlinkedSessionFlow ==
    [][\A p \in Procs :
          (/\ pc[p] = "sync_meta" /\ pc'[p] = "idle"
           /\ response'.err = NULL
           /\ loc[p].id = NULL)
          => LET x == loc[p].x
                 rows == {r \in UserTable' : r.clerkUserId = x}
             IN  /\ Cardinality(rows) = 1
                 /\ \A r \in rows :
                       /\ r.name = loc[p].data.name
                       /\ r.email = loc[p].email
                       /\ publicMetadata[x].role = NULL => r.role = "user"
                       /\ publicMetadata'[x] = [dbId |-> r.id, role |-> r.role]
                       /\ response'.row = {r}]_vars

\* the sync of an identity that was not linked has answered with a redirect
UnlinkedIdentitySynced ==
    /\ response.op = "sync"
    /\ response.id = NULL
    /\ response.err = NULL
    /\ response.row # {}
    /\ publicMetadata[response.x].dbId \in IdsOf(response.row)
    /\ publicMetadata[response.x].role = "user"

\* the metadata of the identity of a session (none when nobody is signed in)
MetadataOf(x) == IF x = NULL THEN NoMetadata ELSE publicMetadata[x]

\* C12  getCurrentUser answers with the redirect to the sync route exactly
\* when somebody is signed in and the metadata holds no dbId; otherwise it
\* returns the external id, the dbId and the role of the metadata, and it
\* goes to getUser, and returns a row, only with allData.
NeedsSyncExactlyWhenUnlinked ==
    [][/\ (response'.op = "getCurrentUser" /\ pc' = pc)
          => LET x == response'.x
                 meta == MetadataOf(x)
             IN  /\ response'.ret = NeedsSync <=> (x # NULL /\ meta.dbId = NULL)
                 /\ response'.ret # NeedsSync
                    => /\ response'.ret = Session
                       /\ response'.id = meta.dbId
                       /\ response'.role = meta.role
                       /\ response'.val = {}
                       /\ ~(response'.allData /\ meta.dbId # NULL)
       /\ \A p \in Procs :
             (pc[p] = "idle" /\ pc'[p] = "getuser_lookup")
             => LET meta == MetadataOf(loc'[p].x)
                IN  /\ loc'[p].allData
                    /\ meta.dbId # NULL
                    /\ loc'[p].id = meta.dbId
                    /\ loc'[p].role = meta.role
       /\ (response'.op = "getCurrentUser" /\ response'.val # {})
          => (response'.allData /\ IdsOf(response'.val) = {response'.id})]_vars

\* a signed-in identity with a row but no link has been sent to the sync
RowButNoLink ==
    /\ response.op = "getCurrentUser"
    /\ response.ret = NeedsSync
    /\ \E r \in UserTable : r.clerkUserId = response.x

\* the pcs of a handler inside getUser
GetUserPcs == {"getuser_lookup", "getuser_db", "getuser_set"}

\* C13  The session resolver is read-only: no step of getCurrentUser or of
\* the getUser it calls changes a table or an identity's metadata,
\* revalidates a tag, or makes a stored entry stale; the only thing it
\* changes is the entry of the id it has read.
ResolverReadOnly ==
    [][(\/ \E p \in Procs : pc[p] \in GetUserPcs /\ pc'[p] # pc[p]
        \/ \E p \in Procs : pc[p] = "idle" /\ pc'[p] = "getuser_lookup"
        \/ response'.op = "getCurrentUser")
       => /\ UNCHANGED <<UserTable, nextId, CourseTable, nextCourseId,
                         publicMetadata, tagsManifest>>
          /\ invalidation' = NoInvalidation
          /\ \A e \in memoryCache :
                e \in memoryCache' \/ \E n \in memoryCache' : n.key = e.key
          /\ \A n \in memoryCache' :
                n \in memoryCache \/ \E p \in Procs : pc[p] = "getuser_set"
                                                      /\ n = NewEntry(loc[p])]_vars

\* a read with allData has missed, queried the table and returned the row
MissReturnedRow ==
    /\ response.op = "getCurrentUser"
    /\ response.allData
    /\ ~response.hit
    /\ response.val # {}
    /\ \E e \in memoryCache : e.key = response.id

\* C14  Name derivation: the derived name is the first of full name, first
\* name, last name and username that is neither absent nor empty, and
\* "User" when there is none; it is never empty.
NameDerivation ==
    response.op = "DeriveName" =>
        LET u == response.data
            chain == <<u.fullName, u.firstName, u.lastName, u.username>>
            given == {i \in 1..4 : chain[i] # NULL /\ chain[i] # ""}
        IN  /\ response.ret # "" /\ response.ret # NULL
            /\ given = {} => response.ret = "User"
            /\ \A i \in given :
                  (\A j \in given : i <= j) => response.ret = chain[i]

\* a profile with an empty full name and first name has got its last name
EmptyNamesSkipped ==
    /\ response.op = "DeriveName"
    /\ response.data.fullName = "" /\ response.data.firstName = ""
    /\ response.data.username # NULL
    /\ response.ret = "Lovelace"

\* the referer names the sync route itself
IsSyncEntryPoint(referer) == referer.path = <<SyncUsersPath>>

\* C15  Continuation target: a sync that has upserted the row and written
\* the metadata answers with a redirect, never with an error; the redirect
\* goes to the referer when there is one and it is not the sync route, and
\* to "/" otherwise, and never to the sync route.
ContinuationTarget ==
    (response.op = "sync" /\ response.row # {} /\ response.err # ClerkApiError)
    => /\ response.err = NULL
       /\ response.ret =
            "redirect:" \o
               (IF Truthy(HeaderValue(response.referer))
                     /\ ~IsSyncEntryPoint(response.referer)
                THEN Href(response.referer) ELSE "/")
       /\ response.ret # "redirect:" \o Concat(Host) \o SyncUsersPath

\* C16  Lifecycle upsert: a verified user.created or user.updated event
\* goes to insertUser with the external id of the event and with the role
\* the identity's metadata names, or "user" when it names none; and when
\* the webhook has written the metadata, the metadata holds the id and the
\* role of the row insertUser returned.
LifecycleUpsert ==
    [][\A p \in Procs :
          /\ (/\ pc[p] = "idle" /\ pc'[p] # "idle"
              /\ loc'[p].op = "webhook"
              /\ loc'[p].evt \in {"user.created", "user.updated"})
             => /\ pc'[p] = "insert_write"
                /\ loc'[p].data.clerkUserId = loc'[p].x
                /\ loc'[p].data.role =
                     IF publicMetadata[loc'[p].x].role # NULL
                     THEN publicMetadata[loc'[p].x].role ELSE "user"
          /\ (pc[p] = "wh_meta" /\ pc'[p] = "idle" /\ response'.err = NULL)
             => \A r \in loc[p].row :
                   publicMetadata'[loc[p].x] = [dbId |-> r.id, role |-> r.role]]_vars

\* C17  Signature verification: the step that answers a lifecycle
\* notification with the verification error dispatches no handler and
\* leaves the users table, the metadata, the tag manifest and the cache
\* as they were, and it revalidates no tag.
SignatureRejected ==
    [][(response'.op = "webhook" /\ response'.ret = WebhookBadSignature)
        => /\ UNCHANGED <<UserTable, nextId, publicMetadata, tagsManifest,
                          memoryCache, pc, redacted, lastWrite>>
           /\ invalidation' = NoInvalidation
           /\ response'.row = {}]_vars

\* a forged user.deleted event for an identity that has a row was answered
ForgedDeleteAnswered ==
    /\ response.op = "webhook"
    /\ response.ret = WebhookBadSignature
    /\ response.evt = "user.deleted"
    /\ \E r \in UserTable : r.clerkUserId = response.x /\ r.deletedAt = NULL

\* C18  Tag format: the global tag of kind k is "global:" k, the id tag of
\* k and i is "id:" i "-" k, the user-scoped tag is "user:" i "-" k; the id
\* tag of "users" and "abc" is "id:abc-users" and the global tag of "users"
\* is "global:users"; and the one tag getUser(i) attaches is the id tag
\* revalidateUserCache(i) revalidates, next to the global users tag.
TagFormat ==
    LET a == response.data
    IN  /\ response.op = "getGlobalTag" =>
              /\ response.ret = "global:" \o a.tag
              /\ a.tag = "users" => response.ret = "global:users"
        /\ response.op = "getIdTag" =>
              /\ response.ret = "id:" \o a.id \o "-" \o a.tag
              /\ (a.tag = "users" /\ a.id = "abc") => response.ret = "id:abc-users"
        /\ response.op = "getUserTag" =>
              response.ret = "user:" \o a.id \o "-" \o a.tag
        /\ response.op = "cacheTag" =>
              response.ret = {"id:" \o a.id \o "-users"}
        /\ response.op = "revalidateUserCache" =>
              response.ret = {"global:users", "id:" \o a.id \o "-users"}

\* idTag("users", "abc") has been computed
IdTagOfAbc ==
    /\ response.op = "getIdTag"
    /\ response.data = [tag |-> "users", id |-> "abc"]
    /\ response.ret = "id:abc-users"

\* no getUser(id) has stored a result yet
NeverComputed(id) == \A e \in memoryCache : e.key # id

\* the result stored for id has had its tag revalidated since
InvalidatedSince(id) == \E e \in memoryCache : e.key = id /\ e.stale

MutationPcs == {"insert_write", "insert_reval", "update_write",
                "update_reval", "delete_write", "delete_reval"}

MutationInProgress == \E q \in Procs : pc[q] \in MutationPcs

Linked(x) ==
    /\ publicMetadata[x].dbId # NULL
    /\ \E r \in UserTable :
          /\ r.clerkUserId = x /\ r.id = publicMetadata[x].dbId
          /\ \A q \in UserTable : q.clerkUserId = x => q = r

\* the sync that has just answered failed at the email check, in the upsert
\* or in the metadata write-back
SyncFailedAtStep ==
    /\ response.op = "sync" /\ response.x # NULL
    /\ \/ response.ret = EmailMissingResponse
       \/ response.err \in {DbConnectionError, FailedToCreate, ClerkApiError}

\* C21  Sync retryability: when a sync of an identity that had no dbId has
\* failed at the email check, in the upsert or in the write-back, the
\* identity still has no dbId and getCurrentUser sends it to the sync route
\* again; a sync that answers with its redirect leaves the identity linked
\* to exactly one row; and when the caller keeps coming back and the
\* failures end, the identity is eventually linked.
SyncRetryability ==
    /\ []((SyncFailedAtStep /\ response.id = NULL)
             => /\ publicMetadata[response.x].dbId = NULL
                /\ NotSynced(response.x, SessionClaims(response.x)))
    /\ []((response.op = "sync" /\ response.x # NULL /\ response.err = NULL
              /\ response.ret # EmailMissingResponse)
             => Linked(response.x))
    /\ \A x \in OneIdentity : <>[]Linked(x)

\* the write-back of an identity without dbId has failed after its row was
\* written: the row is there, the link is not
WriteBackFailedUnlinked ==
    /\ response.op = "sync"
    /\ response.err = ClerkApiError
    /\ response.id = NULL
    /\ \E r \in UserTable : r.clerkUserId = response.x
    /\ publicMetadata[response.x].dbId = NULL

\* the pcs at which a user mutation revalidates and returns
RevalPcs == {"insert_reval", "update_reval", "delete_reval"}

\* C22  Tag coverage: the step that ends a successful insertUser, updateUser
\* or deleteUser revalidates global:users and id:<id>-users for the id of
\* the row its statement returned, and these contain every tag of every
\* stored getUser result for that id, which is stale afterwards.
TagCoverage ==
    [][\A p \in Procs :
          (pc[p] \in RevalPcs /\ pc'[p] # pc[p] /\ loc[p].row # {})
          => \A r \in loc[p].row :
                /\ {"global:users", "id:" \o r.id \o "-users"}
                      \subseteq invalidation'.tags
                /\ invalidation'.tags \subseteq tagsManifest'
                /\ \A e \in memoryCache' :
                      e.key = r.id => e.tags \subseteq invalidation'.tags /\ e.stale
      ]_vars

\* a mutation has revalidated the tags of a row of which a result is stored
StoredResultInvalidated ==
    /\ invalidation.op \in {"sync", "webhook"}
    /\ \E r \in invalidation.row, e \in memoryCache :
          /\ e.key = r.id /\ e.value # {}
          /\ e.tags # {} /\ e.tags \subseteq invalidation.tags

RoleAuthority ==
    [][/\ \A r \in UserTable, r2 \in UserTable' :
             r2.id = r.id => r2.role = r.role
       /\ \A p \in Procs :
             (pc[p] \in {"sync_meta", "wh_meta"} /\ pc'[p] = "idle"
                 /\ response'.err # ClerkApiError)
             => \E r \in UserTable' :
                   /\ r.id = publicMetadata'[loc[p].x].dbId
                   /\ r.role = publicMetadata'[loc[p].x].role
      ]_vars

\* C25  Soft delete succeeds whatever its history: a user.deleted event
\* that reaches deleteUser's statement for an external id that a row with
\* deletedAt null carries gets that row redacted, also when other rows have
\* been redacted before; the only way it fails, the connection apart, is
\* "Failed to delete user" for an external id that no row carries.
SoftDeleteSucceeds ==
    [][\A p \in Procs :
          (pc[p] = "delete_write" /\ pc'[p] # pc[p]
              /\ ~(pc'[p] = "idle" /\ response'.err = DbConnectionError))
          => LET hit == {r \in UserTable : r.clerkUserId = loc[p].x}
             IN  /\ pc'[p] = "delete_reval"
                 /\ hit # {} =>
                       /\ \A r \in loc'[p].row : Redacted(r) /\ r.id \in IdsOf(hit)
                       /\ loc'[p].row # {}
                 /\ hit = {} => loc'[p].row = {} /\ UserTable' = UserTable
      ]_vars

\* the pcs at which a user mutation runs its statement
WritePcs == {"insert_write", "update_write", "delete_write"}

\* C26  Invalidation frame: a user mutation's statement changes no row but
\* those that carry the external id it was given, and its return
\* revalidates exactly global:users and id:<id>-users of the row it wrote;
\* a result stored for any other id stays as it is, and servable if it was.
InvalidationFrame ==
    [][\A p \in Procs :
          /\ (pc[p] \in WritePcs /\ pc'[p] # pc[p])
             => \A r \in UserTable : r.clerkUserId # loc[p].x => r \in UserTable'
          /\ (pc[p] \in RevalPcs /\ pc'[p] # pc[p] /\ loc[p].row # {})
             => \A r \in loc[p].row :
                   /\ invalidation'.tags = {"global:users", "id:" \o r.id \o "-users"}
                   /\ \A e \in memoryCache :
                         e.key # r.id =>
                            \E f \in memoryCache' :
                               /\ f.key = e.key /\ f.value = e.value
                               /\ f.tags = e.tags /\ f.stale = e.stale
      ]_vars

\* a mutation of one user has revalidated while a servable result of
\* another user is stored
OtherUsersResultKept ==
    /\ invalidation.tags # {}
    /\ \E r \in invalidation.row, e \in memoryCache :
          e.key # r.id /\ ~e.stale /\ e.value # {}

CourseActionNames == {"createCourse", "updateCourse", "deleteCourse"}

SectionActionNames == {"createSection", "updateSection", "deleteSection"}

\* the input of a create or update action with locals l passes its schema
ValidInput(l) ==
    /\ l.op \in {"createCourse", "updateCourse"}
          => l.data.title # "" /\ l.data.description # ""
    /\ l.op \in {"createSection", "updateSection"} => l.data.name # ""

\* the session of x carries the role admin
AdminSession(x) == x # NULL /\ publicMetadata[x].role = "admin"

DeleteSectionOnly ==
    [][\A p \in Procs :
          (loc[p].op = "deleteSection" /\ loc[p].role = "admin"
              /\ pc[p] # "idle" /\ pc'[p] # pc[p])
          => /\ CourseTable' = CourseTable
             /\ \A c \in CourseIdArgs :
                   invalidation'.tags \cap CourseCacheTags(c) = {}
             /\ \A t \in SectionTable \ SectionTable' : t.id = loc[p].id
             /\ response'.ret = "error:false"
                   => loc[p].id \notin IdsOf(SectionTable')
      ]_vars

\* C29: section order uniqueness.  Whatever the interleaving of the
\* administrators' createSection calls, no two sections of one course have
\* the same order value.
SectionOrderUnique ==
    \A s, t \in SectionTable :
        (s.courseId = t.courseId /\ s.order = t.order) => s = t

\* the calls that return one tag, and what of their argument the tag is
\* made from
TagFunctions ==
    {"getGlobalTag", "getIdTag", "getUserTag", "getUserCourseAccessIdTag"}

TagKey(r) ==
    IF r.op = "getGlobalTag" THEN <<r.op, r.data.tag>> ELSE <<r.op, r.data>>

\* identifiers as the database issues them
IssuedIds == {Uuid(1), Uuid(2), Cid(1), Cid(2)}

IssuedArgs(r) ==
    r.op = "getUserCourseAccessIdTag"
        => r.data.userId \in IssuedIds /\ r.data.courseId \in IssuedIds

\* revalidateUserCourseAccessCache hands revalidateTag the global tag, the
\* (course, user) id tag and the user-scoped tag of userCourseAccess
AccessTagsExact ==
    response'.op = "revalidateUserCourseAccessCache"
        => response'.ret =
              {"global:userCourseAccess",
               "id:course:" \o response'.data.courseId \o "-user:"
                   \o response'.data.userId \o "-userCourseAccess",
               "user:" \o response'.data.userId \o "-userCourseAccess"}

\* C30: tag injectivity.  Two calls of the tag functions (getGlobalTag,
\* getIdTag, getUserTag, getUserCourseAccessIdTag) that return the same
\* string are calls of the same function with the same kind and the same
\* identifiers, provided the identifiers handed to
\* getUserCourseAccessIdTag are ids as the database issues them; and
\* revalidateUserCourseAccessCache revalidates exactly the global, the
\* (course, user) id and the user-scoped userCourseAccess tags.
TagInjectivity ==
    [][/\ (/\ response.op \in TagFunctions /\ response'.op \in TagFunctions
           /\ IssuedArgs(response) /\ IssuedArgs(response')
           /\ response.ret = response'.ret)
             => TagKey(response) = TagKey(response')
       /\ AccessTagsExact
      ]_vars

\* the access tag of one (user, course) pair has been returned and the
\* call for another pair of issued ids is about to return
TwoAccessTags ==
    /\ response.op = "getUserCourseAccessIdTag"
    /\ pc[1] = "getUserCourseAccessIdTag"
    /\ IssuedArgs(response) /\ IssuedArgs(loc[1])
    /\ response.data.courseId = loc[1].data.courseId
    /\ response.data.userId # loc[1].data.userId

\* C30 as stated: over arbitrary identifiers, two calls of the tag
\* functions that return the same string are calls of the same function
\* with the same kind and identifiers, and
\* revalidateUserCourseAccessCache revalidates exactly its three tags.
TagInjectivityAnyId ==
    [][/\ (/\ response.op \in TagFunctions /\ response'.op \in TagFunctions
           /\ response.ret = response'.ret)
             => TagKey(response) = TagKey(response')
       /\ AccessTagsExact
      ]_vars

=============================================================================
